---- MODULE Spec2Model ----
(***************************************************************************)
(* mp4box: the sample-table resolver (src/src/samples.rs) and the          *)
(* top-level box walk of the JSON report (src/src/json_api.rs).            *)
(*                                                                         *)
(* Machine integers keep a width.  TLC's integers end at 2^31 - 1, so the  *)
(* widths are scaled: a u32 has U32Bits bits, a u64 and an i64 twice that. *)
(* Every operation that can leave its type's range either panics (a build  *)
(* with overflow checks, cargo's dev profile) or wraps (the release        *)
(* profile); overflow_checks says which build runs.                        *)
(* SampleInfo.start_time (an f64 quotient) is not represented.             *)
(***************************************************************************)
EXTENDS Integers, Sequences, FiniteSets, TLC

VARIABLES
    overflow_checks,  \* the build: TRUE panics on overflow, FALSE wraps
    traks,            \* the trak boxes of the file's moov boxes, in file order
    t,                \* track_samples_from_reader: the trak being extracted (1-based)
    result,           \* track_samples_from_reader: `result`, the TrackSamples pushed
    pc,               \* where the call is
    tables,           \* build_sample_info: `tables`
    timescale,        \* build_sample_info: `timescale`
    i,                \* build_sample_info: the loop's sample index
    current_dts,      \* build_sample_info: `current_dts`
    samples,          \* build_sample_info: `samples`
    file_len,         \* analyze_file: `file_len`
    decode,           \* analyze_file: `decode`
    pos,              \* analyze_file: the stream position of `f`
    boxes,            \* analyze_file: `boxes`, the BoxRef pushed
    json,             \* analyze_file: the JsonBox list returned
    apc               \* where analyze_file is

\* the state of track_samples_from_reader, and that of analyze_file
svars == <<traks, t, result, pc, tables, timescale, i, current_dts, samples>>
avars == <<file_len, decode, pos, boxes, json, apc>>
vars == <<overflow_checks, svars, avars>>

---------------------------------------------------------------------------
(* Bounds of the model *)

\* bits of a scaled u32 (the program's u32 has 32)
U32Bits == 10
\* largest stsz.sample_count drawn
MaxSamples == 3
\* most entries of a drawn stts / ctts table
MaxEntries == 3
\* most entries of a drawn stsc table
MaxStscEntries == 2
\* most chunk offsets of a drawn stco / co64 table
MaxChunks == 3
\* most trak boxes of a drawn file
MaxTraks == 2
\* longest file drawn for analyze_file, in bytes
MaxFileLen == 24
\* most top-level boxes analyze_file is followed through
MaxBoxes == 3

---------------------------------------------------------------------------
(* Machine integers *)

U32Mod == 2 ^ U32Bits
U32Max == U32Mod - 1
U64Mod == 2 ^ (2 * U32Bits)
U64Max == U64Mod - 1
I64Max == (U64Mod \div 2) - 1
I64Min == 0 - (U64Mod \div 2)

\* Outcomes that are not numbers: a panic of the thread, and Option's None.
\* Both lie below every i64.
PANIC == I64Min - 1
NONE == I64Min - 2

\* Option<T> of a table: <<>> is None, <<x>> is Some(x)
IsSome(o) == Len(o) = 1
Unwrap(o) == o[1]

\* An operation whose mathematical result r left lo..hi: a panic with
\* overflow checks, two's-complement wrapping without.
Checked(r, lo, hi, modulus) ==
    IF r >= lo /\ r <= hi THEN r
    ELSE IF overflow_checks THEN PANIC
    ELSE lo + ((r - lo) % modulus)

AddU32(a, b) ==
    IF a = PANIC \/ b = PANIC THEN PANIC ELSE Checked(a + b, 0, U32Max, U32Mod)
SubU32(a, b) ==
    IF a = PANIC \/ b = PANIC THEN PANIC ELSE Checked(a - b, 0, U32Max, U32Mod)
MulU32(a, b) ==
    IF a = PANIC \/ b = PANIC THEN PANIC ELSE Checked(a * b, 0, U32Max, U32Mod)
\* a / b and a % b panic on b = 0 in every build
DivU32(a, b) ==
    IF a = PANIC \/ b = PANIC \/ b = 0 THEN PANIC ELSE a \div b
RemU32(a, b) ==
    IF a = PANIC \/ b = PANIC \/ b = 0 THEN PANIC ELSE a % b
AddU64(a, b) ==
    IF a = PANIC \/ b = PANIC THEN PANIC ELSE Checked(a + b, 0, U64Max, U64Mod)
AddI64(a, b) ==
    IF a = PANIC \/ b = PANIC THEN PANIC
    ELSE Checked(a + b, I64Min, I64Max, U64Mod)
\* `x as i64` of a u64 and `x as u64` of an i64: reinterpretation, never a panic
AsI64(x) == IF x = PANIC THEN PANIC ELSE IF x > I64Max THEN x - U64Mod ELSE x
AsU64(x) == IF x = PANIC THEN PANIC ELSE IF x < 0 THEN x + U64Mod ELSE x
\* `n as u32` of a usize
AsU32(n) == n % U32Mod

UnwrapOr(o, d) == IF o = NONE THEN d ELSE o

---------------------------------------------------------------------------
(* samples.rs: the per-sample helpers *)

\* get_sample_size: the fixed size, else sample_sizes[index], else 0
get_sample_size(stsz, index) ==
    IF IsSome(stsz)
    THEN LET d == Unwrap(stsz) IN
         IF d.sample_size > 0 THEN d.sample_size
         ELSE IF index + 1 <= Len(d.sample_sizes) THEN d.sample_sizes[index + 1]
         ELSE 0
    ELSE 0

\* is_sync_sample looking the 0-based index up instead of the 1-based number
is_sync_sample_zero_based(stss, sample_number) ==
    IF sample_number = PANIC THEN FALSE
    ELSE IF IsSome(stss)
    THEN \E k \in 1..Len(Unwrap(stss).sample_numbers) :
            Unwrap(stss).sample_numbers[k] = sample_number - 1
    ELSE TRUE

\* is_sync_sample: membership of the 1-based number; no stss: every sample
is_sync_sample(stss, sample_number) ==
    IF sample_number = PANIC THEN FALSE
    ELSE IF IsSome(stss)
    THEN \E k \in 1..Len(Unwrap(stss).sample_numbers) :
            Unwrap(stss).sample_numbers[k] = sample_number
    ELSE TRUE

\* The `for entry in &entries` loop shared by the stts and ctts helpers, from
\* entry k on with the running current_sample cur: the field of the first
\* entry with sample_index < current_sample + entry.sample_count, else `last`.
RECURSIVE RunWalk(_, _, _, _, _, _)
RunWalk(entries, field, k, cur, sample_index, last) ==
    IF k > Len(entries) THEN last
    ELSE LET upto == AddU32(cur, entries[k].sample_count) IN
         IF upto = PANIC THEN PANIC
         ELSE IF sample_index < upto THEN entries[k][field]
         ELSE RunWalk(entries, field, k + 1, upto, sample_index, last)

\* get_sample_duration_from_stts: past the runs, the last entry's delta
get_sample_duration_from_stts(stts, sample_index) ==
    RunWalk(stts.entries, "sample_delta", 1, 0, sample_index,
            IF Len(stts.entries) = 0 THEN NONE
            ELSE stts.entries[Len(stts.entries)].sample_delta)

\* get_composition_offset_from_ctts: past the runs, Some(0)
get_composition_offset_from_ctts(ctts, sample_index) ==
    RunWalk(ctts.entries, "sample_offset", 1, 0, sample_index, 0)

\* get_sample_file_offset, lines 376-382: co64 is preferred to stco
\* (a sequence under "some"; none means `return 0`)
chunk_offsets_of(tbl) ==
    IF IsSome(tbl.co64) THEN <<Unwrap(tbl.co64).chunk_offsets>>
    ELSE IF IsSome(tbl.stco) THEN <<Unwrap(tbl.stco).chunk_offsets>>
    ELSE <<>>

\* get_sample_file_offset, lines 390-410: the loop over stsc.entries from
\* entry k (1-based here) with the running current_sample cur.  The result is
\* the loop's variables when it ends: chunk_index (0-based, 0 when the loop
\* ran out without a break), current_sample and samples_per_chunk (of the
\* entry visited last, spc0 when none was).
RECURSIVE StscLoop(_, _, _, _, _, _)
StscLoop(entries, nchunks, target_sample, k, cur, spc0) ==
    IF k > Len(entries)
    THEN [panic |-> FALSE, chunk_index |-> 0, current_sample |-> cur,
          samples_per_chunk |-> spc0]
    ELSE
    LET entry == entries[k]
        next_first_chunk ==
            IF k + 1 <= Len(entries) THEN entries[k + 1].first_chunk
            ELSE AddU32(AsU32(nchunks), 1)
        samples_per_chunk == entry.samples_per_chunk
        chunks_with_this_config == SubU32(next_first_chunk, entry.first_chunk)
        samples_in_this_range == MulU32(chunks_with_this_config, samples_per_chunk)
        upto == AddU32(cur, samples_in_this_range)
        sample_offset_in_range == SubU32(target_sample, cur)
        first_index == SubU32(entry.first_chunk, 1)
        quot == DivU32(sample_offset_in_range, samples_per_chunk)
        Panicked == [panic |-> TRUE, chunk_index |-> 0, current_sample |-> cur,
                     samples_per_chunk |-> samples_per_chunk]
    IN  IF upto = PANIC THEN Panicked
        ELSE IF upto > target_sample
        THEN IF first_index = PANIC \/ quot = PANIC THEN Panicked
             ELSE [panic |-> FALSE, chunk_index |-> first_index + quot,
                   current_sample |-> cur,
                   samples_per_chunk |-> samples_per_chunk]
        ELSE StscLoop(entries, nchunks, target_sample, k + 1, upto,
                      samples_per_chunk)

\* get_sample_file_offset, lines 432-437: the sizes summed for the
\* sample_in_chunk samples from index chunk_start_sample on, an index past
\* the table adding nothing
RECURSIVE SumSizes(_, _, _)
SumSizes(sizes, from, n) ==
    IF n = 0 \/ from + 1 > Len(sizes) THEN 0
    ELSE sizes[from + 1] + SumSizes(sizes, from + 1, n - 1)

\* get_sample_file_offset, lines 423-438: the offset inside the chunk
offset_in_chunk_of(stsz, sample_in_chunk, chunk_start_sample) ==
    IF stsz.sample_size > 0 THEN sample_in_chunk * stsz.sample_size
    ELSE IF Len(stsz.sample_sizes) > 0
    THEN SumSizes(stsz.sample_sizes, chunk_start_sample, sample_in_chunk)
    ELSE 0

\* get_sample_file_offset
get_sample_file_offset(tbl, sample_index) ==
    IF ~IsSome(tbl.stsc) THEN 0
    ELSE IF ~IsSome(tbl.stsz) THEN 0
    ELSE IF ~IsSome(chunk_offsets_of(tbl)) THEN 0
    ELSE
    LET stsc == Unwrap(tbl.stsc)
        stsz == Unwrap(tbl.stsz)
        chunk_offsets == Unwrap(chunk_offsets_of(tbl))
        target_sample == AddU32(sample_index, 1)
        loop == StscLoop(stsc.entries, Len(chunk_offsets), target_sample, 1, 1, 0)
        sample_in_chunk ==
            RemU32(SubU32(target_sample, loop.current_sample),
                   loop.samples_per_chunk)
    IN  IF target_sample = PANIC \/ loop.panic THEN PANIC
        ELSE IF loop.chunk_index >= Len(chunk_offsets) THEN 0
        ELSE IF sample_in_chunk = PANIC THEN PANIC
        ELSE AddU64(chunk_offsets[loop.chunk_index + 1],
                    offset_in_chunk_of(stsz, sample_in_chunk,
                                       loop.current_sample))

---------------------------------------------------------------------------
(* samples.rs: track_samples_from_reader and what it calls *)

NoTables == [stts |-> <<>>, ctts |-> <<>>, stsc |-> <<>>, stsz |-> <<>>,
             stss |-> <<>>, stco |-> <<>>, co64 |-> <<>>]

\* find_stbl_box: trak/mdia/minf/stbl, <<>> where the code bails
find_stbl_box(trak) ==
    IF IsSome(trak.mdia) /\ IsSome(Unwrap(trak.mdia).minf)
    THEN Unwrap(Unwrap(trak.mdia).minf).stbl
    ELSE <<>>

\* find_media_info: mdhd's timescale under mdia, 1000 by default
find_media_info(trak) ==
    IF IsSome(trak.mdia) /\ IsSome(Unwrap(trak.mdia).mdhd)
    THEN Unwrap(Unwrap(trak.mdia).mdhd).timescale
    ELSE 1000

\* find_track_id: the stub returns 1 whatever tkhd holds
find_track_id(trak) == 1

\* extract_sample_tables: the structured children of stbl
extract_sample_tables(stbl) == stbl

\* build_sample_info, line 264
default_duration(ts) == IF ts > 0 THEN ts \div 24 ELSE 1000

\* build_sample_info, lines 269-273
duration_of(tbl, ts, index) ==
    IF IsSome(tbl.stts)
    THEN UnwrapOr(get_sample_duration_from_stts(Unwrap(tbl.stts), index),
                  default_duration(ts))
    ELSE default_duration(ts)

\* build_sample_info, lines 276-280
composition_offset_of(tbl, index) ==
    IF IsSome(tbl.ctts)
    THEN UnwrapOr(get_composition_offset_from_ctts(Unwrap(tbl.ctts), index), 0)
    ELSE 0

\* build_sample_info, line 282: (current_dts as i64 + offset as i64) as u64
pts_of(dts, composition_offset) ==
    AsU64(AddI64(AsI64(dts), composition_offset))

\* build_sample_info, lines 284-294: the SampleInfo of sample `index`
SampleInfo(tbl, ts, index, dts) ==
    [index |-> index,
     dts |-> dts,
     pts |-> pts_of(dts, composition_offset_of(tbl, index)),
     duration |-> duration_of(tbl, ts, index),
     rendered_offset |-> composition_offset_of(tbl, index),
     file_offset |-> get_sample_file_offset(tbl, index),
     size |-> get_sample_size(tbl.stsz, index),
     is_sync |-> is_sync_sample(tbl.stss, AddU32(index, 1))]

\* extract_track_samples, lines 100-107
TrackSamples(trak, ts, smp) ==
    [track_id |-> find_track_id(trak), timescale |-> ts,
     sample_count |-> AsU32(Len(smp)), samples |-> smp]

\* extract_track_samples, lines 85-94, for the next trak of the loop of
\* track_samples_from_reader: find_stbl_box's error leaves both functions
\* through `?`
ExtractTrack ==
    /\ pc = "next_trak"
    /\ t <= Len(traks)
    /\ IF IsSome(find_stbl_box(traks[t]))
       THEN /\ tables' = extract_sample_tables(Unwrap(find_stbl_box(traks[t])))
            /\ timescale' = find_media_info(traks[t])
            /\ pc' = "building"
       ELSE /\ pc' = "err"
            /\ UNCHANGED <<tables, timescale>>
    /\ i' = 0
    /\ current_dts' = 0
    /\ samples' = <<>>
    /\ UNCHANGED <<overflow_checks, traks, t, result, avars>>

\* build_sample_info, lines 256-260: no stsz, an empty list is returned, and
\* extract_track_samples wraps it in Some(TrackSamples)
BuildNoStsz ==
    /\ pc = "building"
    /\ ~IsSome(tables.stsz)
    /\ result' = Append(result, TrackSamples(traks[t], timescale, samples))
    /\ t' = t + 1
    /\ pc' = "next_trak"
    /\ UNCHANGED <<overflow_checks, traks, tables, timescale, i, current_dts,
                   samples, avars>>

\* build_sample_info, lines 267-298: one turn of the loop
EmitSample ==
    /\ pc = "building"
    /\ IsSome(tables.stsz)
    /\ i < Unwrap(tables.stsz).sample_count
    /\ LET sample == SampleInfo(tables, timescale, i, current_dts)
           next_dts == AddU64(current_dts, sample.duration)
       IN  IF sample.duration = PANIC \/ sample.rendered_offset = PANIC
              \/ sample.pts = PANIC \/ sample.file_offset = PANIC
              \/ next_dts = PANIC
           THEN /\ pc' = "panicked"
                /\ UNCHANGED <<i, current_dts, samples>>
           ELSE /\ samples' = Append(samples, sample)
                /\ current_dts' = next_dts
                /\ i' = i + 1
                /\ pc' = pc
    /\ UNCHANGED <<overflow_checks, traks, t, result, tables, timescale, avars>>

\* build_sample_info, line 300, and extract_track_samples, lines 98-107
BuildReturn ==
    /\ pc = "building"
    /\ IsSome(tables.stsz)
    /\ i = Unwrap(tables.stsz).sample_count
    /\ result' = Append(result, TrackSamples(traks[t], timescale, samples))
    /\ t' = t + 1
    /\ pc' = "next_trak"
    /\ UNCHANGED <<overflow_checks, traks, tables, timescale, i, current_dts,
                   samples, avars>>

\* track_samples_from_reader, line 70
ReturnOk ==
    /\ pc = "next_trak"
    /\ t > Len(traks)
    /\ pc' = "ok"
    /\ UNCHANGED <<overflow_checks, traks, t, result, tables, timescale, i,
                   current_dts, samples, avars>>

Next == ExtractTrack \/ BuildNoStsz \/ EmitSample \/ BuildReturn \/ ReturnOk

---------------------------------------------------------------------------
(* The inputs drawn: decoded sample tables and trak boxes *)

SeqsUpTo(S, n) == UNION {[1..k -> S] : k \in 0..n}

\* a run count past which a running u32 sum overflows, among small ones
CountVals == {1, 2, U32Max}
SttsTables ==
    {[entries |-> e] :
        e \in SeqsUpTo([sample_count : CountVals, sample_delta : {1, 3}],
                       MaxEntries)}
CttsTables ==
    {[entries |-> e] :
        e \in SeqsUpTo([sample_count : CountVals, sample_offset : {0 - 3, 2}],
                       MaxEntries)}

\* stsz with one size for all samples (sample_sizes empty), or one per sample
FixedStsz(s, n) == [sample_size |-> s, sample_count |-> n, sample_sizes |-> <<>>]
VariableStsz(n) ==
    [sample_size |-> 0, sample_count |-> n,
     sample_sizes |-> [k \in 1..n |-> 2 * k - 1]]
StszTables(s) ==
    {FixedStsz(s, n) : n \in 0..MaxSamples}
        \cup {VariableStsz(n) : n \in 0..MaxSamples}

\* the strictly increasing sequence of the numbers of S
RECURSIVE Ascending(_)
Ascending(S) ==
    IF S = {} THEN <<>>
    ELSE LET m == CHOOSE x \in S : \A y \in S : x <= y
         IN  <<m>> \o Ascending(S \ {m})
StssTables == {[sample_numbers |-> Ascending(S)] : S \in SUBSET (1..MaxSamples + 1)}

\* samples_per_chunk: none, small, and one whose double leaves a u32
SpcVals == {0, 1, 2, (U32Mod \div 2) + 1}
StscTables ==
    {[entries |-> e] :
        e \in SeqsUpTo([first_chunk : 1..3, samples_per_chunk : SpcVals,
                        sample_description_index : {1}], MaxStscEntries)}
ChunkOffsets(n) == [k \in 1..n |-> 100 * k]
StcoTables == {[chunk_offsets |-> ChunkOffsets(n)] : n \in 0..MaxChunks}
Co64Tables == {[chunk_offsets |-> <<U32Mod + 500, U32Mod + 700>>]}

Some(S) == {<<x>> : x \in S}
Opt(S) == {<<>>} \cup Some(S)

\* a trak whose mdia/minf/stbl holds the tables tbl; mdhd as given
Mdia(mdhd, minf) == [mdhd |-> mdhd, minf |-> minf]
TrakOf(mdhd, tbl) == [mdia |-> <<Mdia(mdhd, <<[stbl |-> <<tbl>>]>>)>>]
Mdhd(ts) == <<[timescale |-> ts, duration |-> 0]>>

StartOn(trs) ==
    /\ overflow_checks \in BOOLEAN
    /\ traks = trs
    /\ t = 1
    /\ result = <<>>
    /\ pc = "next_trak"
    /\ tables = NoTables
    /\ timescale = 0
    /\ i = 0
    /\ current_dts = 0
    /\ samples = <<>>
    /\ file_len = 0
    /\ decode = FALSE
    /\ pos = 0
    /\ boxes = <<>>
    /\ json = <<>>
    /\ apc = "idle"

\* one trak; stts and ctts drawn, no chunk tables
TimingTables ==
    {[NoTables EXCEPT !.stsz = z, !.stts = a, !.ctts = <<>>] :
        z \in Opt({FixedStsz(1, n) : n \in 0..MaxSamples}), a \in Opt(SttsTables)}
    \cup
    {[NoTables EXCEPT !.stsz = z, !.stts = a, !.ctts = c] :
        z \in Opt({FixedStsz(1, n) : n \in 0..MaxSamples}),
        a \in {<<>>, <<[entries |-> <<[sample_count |-> MaxSamples + 1,
                                       sample_delta |-> 2]>>]>>},
        c \in Some(CttsTables)}
InitTiming ==
    \E tbl \in TimingTables, mdhd \in {<<>>, Mdhd(0), Mdhd(72)} :
        StartOn(<<TrakOf(mdhd, tbl)>>)

\* one trak; stss drawn
InitSync ==
    \E z \in Opt(StszTables(1)), ss \in Opt(StssTables) :
        StartOn(<<TrakOf(<<>>, [NoTables EXCEPT !.stsz = z, !.stss = ss])>>)

\* one trak; stsz, stsc and the chunk offsets drawn
ChunkTables ==
    {<<o, <<>> >> : o \in Opt(StcoTables)}
        \cup {<<o, c>> : o \in {<<>>, <<[chunk_offsets |-> ChunkOffsets(1)]>>},
                         c \in Some(Co64Tables)}
InitOffsets ==
    \E z \in Opt(StszTables(2)), sc \in Opt(StscTables), co \in ChunkTables :
        StartOn(<<TrakOf(<<>>, [NoTables EXCEPT !.stsz = z, !.stsc = sc,
                                               !.stco = co[1], !.co64 = co[2]])>>)

\* several traks, each of one of the shapes a file can give a trak: without
\* mdia, without minf, without stbl, and with a stbl that holds all of, or
\* lacks some of, stsc and stsz
FullTables ==
    [NoTables EXCEPT !.stsz = <<FixedStsz(2, 2)>>,
                     !.stsc = <<[entries |-> <<[first_chunk |-> 1,
                                                samples_per_chunk |-> 2,
                                                sample_description_index |-> 1]>>]>>,
                     !.stco = <<[chunk_offsets |-> ChunkOffsets(1)]>>]
TrakShapes ==
    {[mdia |-> <<>>],
     [mdia |-> <<Mdia(Mdhd(48), <<>>)>>],
     [mdia |-> <<Mdia(Mdhd(48), <<[stbl |-> <<>>]>>)>>],
     TrakOf(Mdhd(48), FullTables),
     TrakOf(Mdhd(48), [FullTables EXCEPT !.stsc = <<>>]),
     TrakOf(Mdhd(48), [FullTables EXCEPT !.stsz = <<>>]),
     TrakOf(<<>>, [FullTables EXCEPT !.stsc = <<>>, !.stsz = <<>>])}
InitTracks ==
    \E trs \in SeqsUpTo(TrakShapes, MaxTraks) : StartOn(trs)

SpecTracks == InitTracks /\ [][Next]_vars
SpecTiming == InitTiming /\ [][Next]_vars
SpecSync == InitSync /\ [][Next]_vars
SpecOffsets == InitOffsets /\ [][Next]_vars

---------------------------------------------------------------------------
(* json_api.rs: analyze_file's walk of the top-level boxes *)

\* known_boxes.rs, by the catalog of the specification (4.2): the category
\* of a type, for one container, one full box, two leaves and `uuid`
is_container(typ) == typ = "moov"
is_full_box(typ) == typ = "stts"

\* registry.rs, default_registry, by the specification (4.4, 4.5): the
\* structured decoders and the text decoder of ftyp; `free` and the uuid
\* keys have none
has_decoder(typ) == typ \in {"stts", "ftyp"}

\* parser.rs, read_box_header, by the specification (4.1): the header read
\* at `start` from the raw fields found there, <<>> for MalformedHeader.
\* size32 = 1 announces a 64-bit largesize; `uuid` adds 16 bytes of usertype.
read_box_header(start, raw, flen) ==
    LET large == raw.size32 = 1
        header_size == 8 + (IF large THEN 8 ELSE 0)
                         + (IF raw.typ = "uuid" THEN 16 ELSE 0)
        size == IF large THEN raw.largesize ELSE raw.size32
    IN  IF start + header_size > flen \/ (size > 0 /\ size < header_size)
        THEN <<>>
        ELSE <<[typ |-> raw.typ, start |-> start, size |-> size,
                header_size |-> header_size]>>

\* u64::saturating_sub
SaturatingSub(a, b) == IF a >= b THEN a - b ELSE 0

\* analyze_file, line 38
box_end_of(h, flen) == IF h.size = 0 THEN flen ELSE AddU64(h.start, h.size)

\* analyze_file, lines 40-65: the NodeKind of the box of header h; <<>> when
\* reading it fails (parse_children's error, or version and flags cut short
\* by the end of the file)
node_kind(h, box_end, flen, children_ok) ==
    IF is_container(h.typ)
    THEN IF children_ok THEN <<[tag |-> "Container", data_offset |-> 0,
                                data_len |-> 0]>>
         ELSE <<>>
    ELSE IF is_full_box(h.typ)
    THEN IF h.start + h.header_size + 4 > flen THEN <<>>
         ELSE <<[tag |-> "FullBox", data_offset |-> h.start + h.header_size + 4,
                 data_len |-> SaturatingSub(box_end, h.start + h.header_size + 4)]>>
    ELSE <<[tag |-> IF h.typ = "uuid" THEN "Unknown" ELSE "Leaf",
            data_offset |-> h.start + h.header_size,
            data_len |-> SaturatingSub(box_end, h.start + h.header_size)]>>

\* File::seek(SeekFrom::Start(off)): the offset goes to lseek as an i64, and
\* one above i64::MAX is refused
seek_fails(off) == off > I64Max

\* payload_region: <<>> is None, else the offset and length of the payload
payload_region(b) ==
    IF b.kind.tag = "FullBox"
    THEN <<[off |-> b.kind.data_offset, len |-> b.kind.data_len]>>
    ELSE IF b.kind.tag \in {"Leaf", "Unknown"}
    THEN IF b.hdr.size = 0 THEN <<>>
         ELSE IF SaturatingSub(b.hdr.size, b.hdr.header_size) = 0 THEN <<>>
         ELSE <<[off |-> b.hdr.start + b.hdr.header_size,
                 len |-> SaturatingSub(b.hdr.size, b.hdr.header_size)]>>
    ELSE <<>>

\* decode_value, lines 121-124: what `limited` yields, the bytes of the file
\* from off, at most len of them
limited_len(off, len, flen) == IF len <= SaturatingSub(flen, off) THEN len
                               ELSE SaturatingSub(flen, off)
\* ... and its whole 32-bit words; b.words are the words of the file from
\* the end of the header of b
limited_words(b, off, len, flen) ==
    LET skip == (off - (b.hdr.start + b.hdr.header_size)) \div 4
        n == limited_len(off, len, flen) \div 4
    IN  SubSeq(b.words, skip + 1, skip + n)

\* SttsDecoder::decode, as tests/registry_tests.rs drives it: the stream it
\* is given opens with the version+flags word, entry_count is the word after
\* it, and pairs (sample_count, sample_delta) follow.  A stream that ends
\* before the declared entries is an error (specification 4.5, Short).
SttsDecoder(stream) ==
    IF Len(stream) < 2 THEN [ok |-> FALSE]
    ELSE IF Len(stream) < 2 + 2 * stream[2] THEN [ok |-> FALSE]
    ELSE [ok |-> TRUE, variant |-> "Structured",
          version_flags |-> stream[1],
          entry_count |-> stream[2],
          entries |-> [k \in 1..stream[2] |->
                          [sample_count |-> stream[2 * k + 1],
                           sample_delta |-> stream[2 * k + 2]]]]

\* the text decoder of ftyp, by the specification (4.4, scenario S1):
\* major_brand and minor_version are eight bytes, a shorter stream fails
FtypDecoder(nbytes) ==
    IF nbytes < 8 THEN [ok |-> FALSE] ELSE [ok |-> TRUE, variant |-> "Text"]

\* Registry::decode, line 126: <<>> when the key has no decoder
reg_decode(b, off, len, flen) ==
    IF ~has_decoder(b.hdr.typ) THEN <<>>
    ELSE IF b.hdr.typ = "stts" THEN <<SttsDecoder(limited_words(b, off, len, flen))>>
    ELSE <<FtypDecoder(limited_len(off, len, flen))>>

\* decode_value: <<>> is None; Some(s) keeps of the string s whether it is
\* format!("[decode error: {}]", e).  The lines hold no arm for a Structured
\* value; it is carried as a text.
decode_value(b, flen) ==
    LET region == payload_region(b) IN
    IF ~IsSome(region) THEN <<>>
    ELSE IF Unwrap(region).len = 0 THEN <<>>
    ELSE IF seek_fails(Unwrap(region).off) THEN <<>>
    ELSE LET res == reg_decode(b, Unwrap(region).off, Unwrap(region).len, flen) IN
         IF ~IsSome(res) THEN <<>>
         ELSE IF Unwrap(res).ok THEN <<[prefix |-> "", body |-> Unwrap(res).variant]>>
         ELSE <<[prefix |-> "[decode error: ", body |-> "e]"]>>

\* build_json_for_box, lines 153-188: offset and size are the header's;
\* decoded is decode_value's when `decode`, else None
build_json_for_box(b, dec, flen) ==
    [offset |-> b.hdr.start,
     size |-> b.hdr.size,
     typ |-> b.hdr.typ,
     kind |-> CASE b.kind.tag = "FullBox" -> "full"
                [] b.kind.tag = "Leaf" -> "leaf"
                [] b.kind.tag = "Unknown" -> "unknown"
                [] OTHER -> "container",
     decoded |-> IF dec THEN decode_value(b, flen) ELSE <<>>]

\* JsonBox, lines 14-26, as serde writes its field `decoded`: the struct
\* derives Serialize with no attribute on the field, so None is written as
\* null and Some(s) as the string
serialized_decoded(j) == IF IsSome(j.decoded) THEN "string" ELSE "null"

\* the values a 32-bit word of an stts payload takes in the files drawn
WordVals == {0, 1, 2}

\* the raw header fields a file can hold at a box start
RawHeaders ==
    {[size32 |-> z, largesize |-> 0, typ |-> ty] :
        z \in {0, 4, 8, 12, 16, 24, 40},
        ty \in {"moov", "stts", "ftyp", "free", "uuid"}}
    \cup
    {[size32 |-> 1, largesize |-> z, typ |-> ty] :
        z \in {0, 16, 24, U64Max - 7, U64Max},
        ty \in {"moov", "stts", "ftyp", "free", "uuid"}}

\* the whole words the file holds between the end of the header h and the
\* end of its box (or of the file); followed for stts payloads only
payload_word_count(h, box_end, flen) ==
    IF h.typ = "stts"
    THEN SaturatingSub(IF box_end <= flen THEN box_end ELSE flen,
                       h.start + h.header_size) \div 4
    ELSE 0

\* analyze_file, lines 36-69: one turn of the loop over the top-level boxes.
\* The file does not change: a position read before holds what it held.
ReadTopLevelBox ==
    /\ apc = "walking"
    /\ pos < file_len
    /\ Len(boxes) < MaxBoxes
    /\ \E raw \in RawHeaders, children_ok \in BOOLEAN :
        LET hdr == read_box_header(pos, raw, file_len)
            box_end == box_end_of(Unwrap(hdr), file_len)
            kind == node_kind(Unwrap(hdr), box_end, file_len, children_ok)
        IN  /\ \A k \in 1..Len(boxes) : boxes[k].hdr.start = pos => boxes[k].raw = raw
            /\ IF ~IsSome(hdr)
               THEN apc' = "err" /\ UNCHANGED <<pos, boxes>>
               ELSE IF box_end = PANIC
               THEN apc' = "panicked" /\ UNCHANGED <<pos, boxes>>
               ELSE IF ~IsSome(kind) \/ seek_fails(box_end)
               THEN apc' = "err" /\ UNCHANGED <<pos, boxes>>
               ELSE \E w \in [1..payload_word_count(Unwrap(hdr), box_end, file_len)
                                 -> WordVals] :
                    /\ \A k \in 1..Len(boxes) :
                           boxes[k].hdr.start = pos => boxes[k].words = w
                    /\ pos' = box_end
                    /\ boxes' = Append(boxes, [hdr |-> Unwrap(hdr),
                                               kind |-> Unwrap(kind),
                                               raw |-> raw, words |-> w])
                    /\ apc' = apc
    /\ UNCHANGED <<overflow_checks, svars, file_len, decode, json>>

\* analyze_file, lines 71-79: the loop has ended, the JsonBox list is built
BuildJson ==
    /\ apc = "walking"
    /\ pos >= file_len
    /\ json' = [k \in 1..Len(boxes) |-> build_json_for_box(boxes[k], decode, file_len)]
    /\ apc' = "returned"
    /\ UNCHANGED <<overflow_checks, svars, file_len, decode, pos, boxes>>

NextAnalyze == ReadTopLevelBox \/ BuildJson

InitAnalyze ==
    /\ overflow_checks \in BOOLEAN
    /\ traks = <<>>
    /\ t = 1
    /\ result = <<>>
    /\ pc = "idle"
    /\ tables = NoTables
    /\ timescale = 0
    /\ i = 0
    /\ current_dts = 0
    /\ samples = <<>>
    /\ file_len \in 0..MaxFileLen
    /\ decode \in BOOLEAN
    /\ pos = 0
    /\ boxes = <<>>
    /\ json = <<>>
    /\ apc = "walking"

SpecAnalyze == InitAnalyze /\ [][NextAnalyze]_vars

---------------------------------------------------------------------------
(* What the claims speak of, computed from the tables alone *)

Max(a, b) == IF a >= b THEN a ELSE b
Min(a, b) == IF a <= b THEN a ELSE b

\* the tables of the trak under extraction hold stsz, stsc and chunk offsets
HasChunkTables ==
    IsSome(tables.stsz) /\ IsSome(tables.stsc) /\ IsSome(chunk_offsets_of(tables))
StscEntries == Unwrap(tables.stsc).entries
NChunks == Len(Unwrap(chunk_offsets_of(tables)))
ChunkOffset(c) == Unwrap(chunk_offsets_of(tables))[c]

\* first_chunk strictly increasing and >= 1
StscWellFormed ==
    /\ \A k \in 1..Len(StscEntries) : StscEntries[k].first_chunk >= 1
    /\ \A k \in 1..Len(StscEntries) - 1 :
           StscEntries[k].first_chunk < StscEntries[k + 1].first_chunk

\* the stsc expansion: chunk c (1-based) takes samples_per_chunk of the
\* entry with the largest first_chunk <= c (no such entry: no samples)
ExpandedSpc(c) ==
    LET K == {k \in 1..Len(StscEntries) : StscEntries[k].first_chunk <= c}
    IN  IF K = {} THEN 0
        ELSE StscEntries[CHOOSE k \in K : \A j \in K :
                 StscEntries[j].first_chunk <= StscEntries[k].first_chunk
             ].samples_per_chunk
\* the 0-based index of the first sample of chunk c
RECURSIVE ChunkFirstSample(_)
ChunkFirstSample(c) ==
    IF c <= 1 THEN 0 ELSE ChunkFirstSample(c - 1) + ExpandedSpc(c - 1)
\* the samples the expansion places in the chunks that have an offset
ImpliedSamples == ChunkFirstSample(NChunks + 1)
\* the chunk holding the sample of 0-based index idx, 0 when none does
ChunkOfSample(idx) ==
    LET C == {c \in 1..NChunks :
                 ChunkFirstSample(c) <= idx
                 /\ idx < ChunkFirstSample(c) + ExpandedSpc(c)}
    IN  IF C = {} THEN 0 ELSE CHOOSE c \in C : TRUE
\* the sizes of the samples of 0-based indices from..to - 1
RECURSIVE SizesBetween(_, _)
SizesBetween(from, to) ==
    IF from >= to THEN 0
    ELSE get_sample_size(tables.stsz, from) + SizesBetween(from + 1, to)

\* the entry of a run-length table whose run, expanded in entry order,
\* covers the sample of 0-based index idx; 0 when the runs end before it
RECURSIVE CoveringEntry(_, _, _, _)
CoveringEntry(entries, k, before, idx) ==
    IF k > Len(entries) THEN 0
    ELSE IF idx < before + entries[k].sample_count THEN k
    ELSE CoveringEntry(entries, k + 1, before + entries[k].sample_count, idx)
\* the signed ctts offset of sample idx, 0 without ctts or past its runs
CttsOffset(idx) ==
    IF ~IsSome(tables.ctts) THEN 0
    ELSE LET e == Unwrap(tables.ctts).entries
             k == CoveringEntry(e, 1, 0, idx)
         IN  IF k = 0 THEN 0 ELSE e[k].sample_offset
\* the running sums of the run counts of a table stay within a u32
RunsInRange(entries) ==
    \A k \in 1..Len(entries) :
        LET Sum[j \in 0..k] ==
                IF j = 0 THEN 0 ELSE Sum[j - 1] + entries[j].sample_count
        IN  Sum[k] <= U32Max

---------------------------------------------------------------------------
(* The claims *)

\* C1: with variable sample sizes (stsz.sample_size = 0) every emitted sample
\* i lies at chunk_offset[c-1] plus the sizes of exactly the samples that
\* precede i inside its chunk c of the stsc expansion.  Stated for a
\* well-formed stsc whose expansion fits a u32, where no arithmetic overflows.
C1_VariableSizeOffsets ==
    (HasChunkTables /\ Unwrap(tables.stsz).sample_size = 0
     /\ StscWellFormed /\ ImpliedSamples <= U32Max)
    => \A k \in 1..Len(samples) :
           LET c == ChunkOfSample(k - 1)
           IN  c # 0 =>
                   samples[k].file_offset
                       = ChunkOffset(c) + SizesBetween(ChunkFirstSample(c), k - 1)

\* C2: with a fixed sample size s # 0 and an stsc of strictly increasing
\* first_chunk >= 1 whose expansion covers all N samples, every emitted sample
\* i lies at chunk_offset[c-1] + k * s, k its 0-based position inside its
\* chunk c.
C2_FixedSizeOffsets ==
    (HasChunkTables /\ Unwrap(tables.stsz).sample_size # 0 /\ StscWellFormed
     /\ \A idx \in 0..Unwrap(tables.stsz).sample_count - 1 : ChunkOfSample(idx) # 0)
    => \A k \in 1..Len(samples) :
           LET c == ChunkOfSample(k - 1)
           IN  samples[k].file_offset
                   = ChunkOffset(c)
                       + (k - 1 - ChunkFirstSample(c)) * Unwrap(tables.stsz).sample_size

\* C3: pts_i = max(0, dts_i + offset_i), offset_i the signed ctts offset of
\* sample i (0 without ctts): a negative sum is saturated to 0.  Stated for
\* ctts runs whose running counts fit a u32.
C3_PtsSaturates ==
    (IsSome(tables.ctts) => RunsInRange(Unwrap(tables.ctts).entries))
    => \A k \in 1..Len(samples) :
           samples[k].pts = Max(0, samples[k].dts + CttsOffset(k - 1))

\* C4: dts_0 = 0 and dts_{i+1} = dts_i + duration_i, duration_i the
\* sample_delta of the stts entry whose run covers sample i (for a sample no
\* run covers, the duration emitted for it); dts never decreases.
C4_DtsRunningTotal ==
    IsSome(tables.stts) =>
        \A k \in 1..Len(samples) :
            LET e == Unwrap(tables.stts).entries
                Delta(idx) ==
                    IF CoveringEntry(e, 1, 0, idx) = 0 THEN samples[idx + 1].duration
                    ELSE e[CoveringEntry(e, 1, 0, idx)].sample_delta
            IN  /\ k = 1 => samples[k].dts = 0
                /\ k > 1 => /\ samples[k].dts = samples[k - 1].dts + Delta(k - 2)
                            /\ samples[k].dts >= samples[k - 1].dts

\* C5: without stss every emitted sample is a sync sample; with stss, sample
\* i (0-based) is one exactly when i + 1 is among stss.sample_numbers.
C5_SyncFlag ==
    \A k \in 1..Len(samples) :
        samples[k].is_sync
            = IF IsSome(tables.stss)
              THEN k \in {Unwrap(tables.stss).sample_numbers[j] :
                              j \in 1..Len(Unwrap(tables.stss).sample_numbers)}
              ELSE TRUE
\* C5's case: a stss that names some emitted samples and not others
C5_Witness ==
    /\ IsSome(tables.stss)
    /\ \E k \in 1..Len(samples) : samples[k].is_sync
    /\ \E k \in 1..Len(samples) : ~samples[k].is_sync
    /\ pc = "ok"

\* C6: rendered_offset of a sample a ctts run covers is that entry's signed
\* sample_offset; without ctts, or past its runs, it is 0.
C6_RenderedOffset ==
    \A k \in 1..Len(samples) : samples[k].rendered_offset = CttsOffset(k - 1)

\* Where no u32 operation of the resolver leaves its range, C2, C4 and C6
\* hold of it: small samples_per_chunk, and run counts whose running sums
\* fit a u32.
C2_HoldsInRange ==
    (HasChunkTables =>
        \A k \in 1..Len(StscEntries) : StscEntries[k].samples_per_chunk <= 2)
    => C2_FixedSizeOffsets
C4_HoldsInRange ==
    (IsSome(tables.stts) => RunsInRange(Unwrap(tables.stts).entries))
    => C4_DtsRunningTotal
C6_HoldsInRange ==
    (IsSome(tables.ctts) => RunsInRange(Unwrap(tables.ctts).entries))
    => C6_RenderedOffset

\* The traks whose stbl is found, and those whose stbl also holds stsc and stsz
HasStbl(trak) == IsSome(find_stbl_box(trak))
HasStscAndStsz(trak) ==
    /\ HasStbl(trak)
    /\ IsSome(Unwrap(find_stbl_box(trak)).stsc)
    /\ IsSome(Unwrap(find_stbl_box(trak)).stsz)
Ended == pc \in {"ok", "err", "panicked"}

\* C7: among several traks, one without mdia/minf/stbl yields None for that
\* trak only: the call still returns Ok, with the TrackSamples of the traks
\* that have all their tables.
C7_MissingStblSkipsTrak ==
    (/\ Ended
     /\ Len(traks) >= 2
     /\ \E k \in 1..Len(traks) : ~HasStbl(traks[k])
     /\ \E k \in 1..Len(traks) : HasStscAndStsz(traks[k]))
    => /\ pc = "ok"
       /\ Len(result) >= Cardinality({k \in 1..Len(traks) : HasStscAndStsz(traks[k])})

\* C8: a trak whose stbl lacks stsc or stsz yields None: no TrackSamples is
\* pushed for it, and no error is raised.  Stated for files whose traks all
\* have a stbl.
C8_MissingStscOrStszSkipsTrak ==
    (Ended /\ \A k \in 1..Len(traks) : HasStbl(traks[k]))
    => /\ pc = "ok"
       /\ Len(result) = Cardinality({k \in 1..Len(traks) : HasStscAndStsz(traks[k])})

\* C9: when the samples the stsc schedule places in the chunks differ in
\* number from N = stsz.sample_count, the list returned is cut to the
\* smaller count, and no returned sample lies outside the chunks.  Stated
\* for a well-formed stsc that starts at chunk 1 and whose samples_per_chunk
\* are small and nonzero, where no arithmetic overflows or divides by zero.
C9_TruncatedToSchedule ==
    (pc = "ok" /\ HasChunkTables /\ StscWellFormed
     /\ Len(StscEntries) > 0 /\ StscEntries[1].first_chunk = 1
     /\ \A k \in 1..Len(StscEntries) : StscEntries[k].samples_per_chunk \in 1..2)
    => /\ Len(samples) = Min(Unwrap(tables.stsz).sample_count, ImpliedSamples)
       /\ \A k \in 1..Len(samples) : ChunkOfSample(k - 1) # 0

\* C10: every top-level box analyze_file reports stays inside the file:
\* offset + size <= file length.
C10_ReportedExtentInsideFile ==
    apc = "returned" =>
        \A k \in 1..Len(json) : json[k].offset + json[k].size <= file_len

---------------------------------------------------------------------------
(* What the claims on the report speak of, computed from the file alone *)

\* the end of the box k in the file: the declared one, or the end of the
\* file for size = 0 and for a box declared longer than the file
ExtentEnd(k) ==
    IF boxes[k].hdr.size = 0 THEN file_len
    ELSE Min(boxes[k].hdr.start + boxes[k].hdr.size, file_len)
\* where the payload of box k starts: after the header, and after
\* version+flags in a full box
PayloadStart(k) ==
    boxes[k].hdr.start + boxes[k].hdr.header_size
        + (IF is_full_box(boxes[k].hdr.typ) THEN 4 ELSE 0)
\* the bytes of payload the file holds for box k
PayloadBytes(k) == Max(ExtentEnd(k) - PayloadStart(k), 0)

\* C11: decoded payloads are attached iff `decode`: with decode = false no
\* reported box has a decoded value; with decode = true every box that is
\* not a container, has a registered decoder and a non-empty payload has
\* one, a leaf written with size = 0 (to the end of the file) included.
C11_DecodedIffRequested ==
    apc = "returned" =>
        \A k \in 1..Len(json) :
            /\ ~decode => ~IsSome(json[k].decoded)
            /\ (decode /\ json[k].kind # "container"
                /\ has_decoder(json[k].typ) /\ PayloadBytes(k) > 0)
               => IsSome(json[k].decoded)

\* the decoder of box k was run on its payload and failed
DecoderFailed(k) ==
    LET region == payload_region(boxes[k]) IN
    /\ IsSome(region)
    /\ Unwrap(region).len > 0
    /\ ~seek_fails(Unwrap(region).off)
    /\ LET res == reg_decode(boxes[k], Unwrap(region).off, Unwrap(region).len,
                             file_len)
       IN  IsSome(res) /\ ~Unwrap(res).ok

\* C12: the report tells three outcomes of `decoded` apart: the field is
\* omitted when decode = false, null when decoding was asked for and the box
\* has no decoder, and a string starting with "[decode error: " when its
\* decoder failed; a failing decoder does not abort the call.
C12_DecodedOutcomesDistinct ==
    apc = "returned" =>
        \A k \in 1..Len(json) :
            /\ ~decode => serialized_decoded(json[k]) = "omitted"
            /\ (decode /\ ~has_decoder(json[k].typ))
               => serialized_decoded(json[k]) = "null"
            /\ (decode /\ DecoderFailed(k))
               => /\ serialized_decoded(json[k]) = "string"
                  /\ Unwrap(json[k].decoded).prefix = "[decode error: "

\* the payload the file holds for the stts box k is a whole table:
\* version+flags, entry_count and entry_count pairs
SttsOnDisk(k) ==
    /\ boxes[k].hdr.typ = "stts"
    /\ Len(boxes[k].words) >= 2
    /\ Len(boxes[k].words) >= 2 + 2 * boxes[k].words[2]

\* C13: for a full box the stream handed to the decoder and the decoder's
\* layout agree: the stream starts right after version+flags (at
\* start + header_size + 4), and the decoded entry_count and entries of an
\* stts are the ones on disk.
C13_SttsDecodedAsOnDisk ==
    (apc = "returned" /\ decode) =>
        \A k \in 1..Len(boxes) :
            SttsOnDisk(k) =>
                LET w == boxes[k].words
                    region == payload_region(boxes[k])
                    res == reg_decode(boxes[k], Unwrap(region).off,
                                      Unwrap(region).len, file_len)
                IN  /\ IsSome(region)
                    /\ Unwrap(region).off
                         = boxes[k].hdr.start + boxes[k].hdr.header_size + 4
                    /\ IsSome(res)
                    /\ Unwrap(res).ok
                    /\ Unwrap(res).entry_count = w[2]
                    /\ Unwrap(res).entries
                         = [e \in 1..w[2] |-> [sample_count |-> w[2 * e + 1],
                                               sample_delta |-> w[2 * e + 2]]]

\* C14: build_sample_info is total over the decoded tables: whatever stsz,
\* stts, ctts, stsc and chunk offsets hold, no division or remainder by zero
\* and no u32 operation leaving 0..u32::MAX stops it.
C14_BuildSampleInfoTotal == pc # "panicked"

\* C15: each turn of the top-level walk leaves the read position at the end
\* of the box it read (start + size, the file length for size = 0), past the
\* start of that box, for 64-bit sizes too.
C15_PositionAdvances ==
    (apc = "walking" /\ Len(boxes) > 0) =>
        LET h == boxes[Len(boxes)].hdr IN
        /\ pos = (IF h.size = 0 THEN file_len ELSE h.start + h.size)
        /\ pos > h.start

====
